---- MODULE Spec2Model ----
(***************************************************************************)
(* A model of crawl.py: the URL helpers (normalize_url, is_internal,       *)
(* get_links), scrape_page and the crawl loop.                             *)
(*                                                                         *)
(* A Python str is a sequence of one-character strings, so that parsing    *)
(* and re-assembling a URL are computed and not assumed.  The alphabet of  *)
(* the inputs has no whitespace inside a URL, no control character and no  *)
(* "]".                                                                    *)
(***************************************************************************)
EXTENDS Integers, Sequences, FiniteSets, TLC

(***************************************************************************)
(* str helpers                                                             *)
(***************************************************************************)
Lowercase == <<"a","b","c","d","e","f","g","h","i","j","k","l","m",
               "n","o","p","q","r","s","t","u","v","w","x","y","z">>
Uppercase == <<"A","B","C","D","E","F","G","H","I","J","K","L","M",
               "N","O","P","Q","R","S","T","U","V","W","X","Y","Z">>
Digits == {"0","1","2","3","4","5","6","7","8","9"}

Range(s) == {s[i] : i \in DOMAIN s}

\* str.isalpha() for an ASCII character
IsAlpha(c) == c \in Range(Lowercase) \cup Range(Uppercase)

\* str.lower() of one character, and of a str
LowerChar(c) ==
  IF c \in Range(Uppercase)
    THEN Lowercase[CHOOSE i \in DOMAIN Uppercase : Uppercase[i] = c]
    ELSE c
Lower(s) == [i \in DOMAIN s |-> LowerChar(s[i])]

\* s[:n] and s[n:] (n counts characters, as in Python slices with n >= 0)
Take(s, n) == SubSeq(s, 1, IF n < Len(s) THEN n ELSE Len(s))
Drop(s, n) == SubSeq(s, n + 1, Len(s))

\* str.startswith(p)
StartsWith(s, p) == Len(p) <= Len(s) /\ SubSeq(s, 1, Len(p)) = p

\* str.find(c, start): first 1-based position >= from of character c, 0 if none
FindFrom(s, c, from) ==
  LET hits == {i \in from..Len(s) : s[i] = c}
  IN  IF hits = {} THEN 0 ELSE CHOOSE i \in hits : \A j \in hits : i <= j
Find(s, c) == FindFrom(s, c, 1)

\* str.rfind(c): last position of c, 0 if none
RFind(s, c) ==
  LET hits == {i \in 1..Len(s) : s[i] = c}
  IN  IF hits = {} THEN 0 ELSE CHOOSE i \in hits : \A j \in hits : i >= j

\* str.rstrip("/"): every trailing "/" removed
RECURSIVE RStripSlash(_)
RStripSlash(s) ==
  IF s # <<>> /\ s[Len(s)] = "/" THEN RStripSlash(SubSeq(s, 1, Len(s) - 1)) ELSE s

\* str.strip() for the one whitespace character of the alphabet
RECURSIVE LStripSpace(_)
LStripSpace(s) == IF s # <<>> /\ s[1] = " " THEN LStripSpace(Tail(s)) ELSE s
RECURSIVE RStripSpace(_)
RStripSpace(s) ==
  IF s # <<>> /\ s[Len(s)] = " " THEN RStripSpace(SubSeq(s, 1, Len(s) - 1)) ELSE s
Strip(s) == RStripSpace(LStripSpace(s))

\* str.split("/"): the list of segments between the slashes
RECURSIVE SplitSlash(_)
SplitSlash(s) ==
  LET i == Find(s, "/")
  IN  IF i = 0 THEN <<s>> ELSE <<SubSeq(s, 1, i - 1)>> \o SplitSlash(Drop(s, i))

\* "/".join(parts)
RECURSIVE JoinSlash(_)
JoinSlash(parts) ==
  IF parts = <<>> THEN <<>>
  ELSE IF Len(parts) = 1 THEN parts[1]
  ELSE parts[1] \o <<"/">> \o JoinSlash(Tail(parts))

\* filter(None, parts): the non-empty segments, in order
RECURSIVE FilterNonEmpty(_)
FilterNonEmpty(parts) ==
  IF parts = <<>> THEN <<>>
  ELSE (IF parts[1] = <<>> THEN <<>> ELSE <<parts[1]>>) \o FilterNonEmpty(Tail(parts))

\* the order of str values (code points), for sorted()
CodeOrder == <<" ", "#", "+", "-", ".", "/", "0","1","2","3","4","5","6","7","8","9",
               ":", "?", "A","B","C","D","E","F","G","H","I","J","K","L","M",
               "N","O","P","Q","R","S","T","U","V","W","X","Y","Z", "[",
               "a","b","c","d","e","f","g","h","i","j","k","l","m",
               "n","o","p","q","r","s","t","u","v","w","x","y","z">>
Ord(c) == CHOOSE i \in DOMAIN CodeOrder : CodeOrder[i] = c
RECURSIVE StrLess(_, _)
StrLess(a, b) ==
  IF b = <<>> THEN FALSE
  ELSE IF a = <<>> THEN TRUE
  ELSE IF a[1] = b[1] THEN StrLess(Tail(a), Tail(b))
  ELSE Ord(a[1]) < Ord(b[1])

(***************************************************************************)
(* urllib.parse, as crawl.py uses it                                       *)
(***************************************************************************)
SchemeChars == Range(Lowercase) \cup Range(Uppercase) \cup Digits \cup {"+", "-", "."}

S_http  == <<"h","t","t","p">>
S_https == <<"h","t","t","p","s">>
S_ftp   == <<"f","t","p">>
S_tel   == <<"t","e","l">>

\* urllib.parse.uses_relative, uses_netloc and uses_params (Python 3.11)
UsesRelative ==
  {<<>>, S_ftp, S_http, <<"g","o","p","h","e","r">>, <<"n","n","t","p">>,
   <<"i","m","a","p">>, <<"w","a","i","s">>, <<"f","i","l","e">>, S_https,
   <<"s","h","t","t","p">>, <<"m","m","s">>,
   <<"p","r","o","s","p","e","r","o">>, <<"r","t","s","p">>,
   <<"r","t","s","p","s">>, <<"r","t","s","p","u">>, <<"s","f","t","p">>,
   <<"s","v","n">>, <<"s","v","n","+","s","s","h">>, <<"w","s">>,
   <<"w","s","s">>}

UsesNetloc ==
  {<<>>, S_ftp, S_http, <<"g","o","p","h","e","r">>, <<"n","n","t","p">>,
   <<"t","e","l","n","e","t">>, <<"i","m","a","p">>, <<"w","a","i","s">>,
   <<"f","i","l","e">>, <<"m","m","s">>, S_https, <<"s","h","t","t","p">>,
   <<"s","n","e","w","s">>, <<"p","r","o","s","p","e","r","o">>,
   <<"r","t","s","p">>, <<"r","t","s","p","s">>, <<"r","t","s","p","u">>,
   <<"r","s","y","n","c">>, <<"s","v","n">>, <<"s","v","n","+","s","s","h">>,
   <<"s","f","t","p">>, <<"n","f","s">>, <<"g","i","t">>,
   <<"g","i","t","+","s","s","h">>, <<"w","s">>, <<"w","s","s">>}

UsesParams ==
  {<<>>, S_ftp, <<"h","d","l">>, <<"p","r","o","s","p","e","r","o">>, S_http,
   <<"i","m","a","p">>, S_https, <<"s","h","t","t","p">>,
   <<"r","t","s","p">>, <<"r","t","s","p","s">>, <<"r","t","s","p","u">>,
   <<"s","i","p">>, <<"s","i","p","s">>, <<"m","m","s">>,
   <<"s","f","t","p">>, S_tel}

\* _splitnetloc(url, 2): the netloc ends at the first of "/", "?", "#"
SplitNetloc(url) ==
  LET ds    == {i \in 3..Len(url) : url[i] \in {"/", "?", "#"}}
      delim == IF ds = {} THEN Len(url) + 1 ELSE CHOOSE i \in ds : \A j \in ds : i <= j
  IN  [netloc |-> SubSeq(url, 3, delim - 1), rest |-> SubSeq(url, delim, Len(url))]

\* urlsplit, last step: split the query off at the first "?"
UrlSplitQuery(scheme, netloc, u, frag) ==
  LET q == Find(u, "?")
  IN  [err |-> ("[" \in Range(netloc)) # ("]" \in Range(netloc)),
       scheme |-> scheme, netloc |-> netloc,
       path |-> IF q > 0 THEN SubSeq(u, 1, q - 1) ELSE u,
       query |-> IF q > 0 THEN Drop(u, q) ELSE <<>>,
       fragment |-> frag]

\* urlsplit, third step: split the fragment off at the first "#"
UrlSplitFragment(scheme, netloc, u) ==
  LET h == Find(u, "#")
  IN  IF h > 0 THEN UrlSplitQuery(scheme, netloc, SubSeq(u, 1, h - 1), Drop(u, h))
      ELSE UrlSplitQuery(scheme, netloc, u, <<>>)

\* urlsplit, second step: a netloc follows a leading "//"
UrlSplitNetloc(scheme, u) ==
  IF Take(u, 2) = <<"/", "/">>
    THEN UrlSplitFragment(scheme, SplitNetloc(u).netloc, SplitNetloc(u).rest)
    ELSE UrlSplitFragment(scheme, <<>>, u)

\* urlsplit(url, scheme=default): err is TRUE where Python raises ValueError
urlsplit(url, default) ==
  LET i == Find(url, ":")
  IN  IF i > 1 /\ IsAlpha(url[1]) /\ \A k \in 1..(i - 1) : url[k] \in SchemeChars
        THEN UrlSplitNetloc(Lower(SubSeq(url, 1, i - 1)), Drop(url, i))
        ELSE UrlSplitNetloc(default, url)

\* _splitparams(url): the position of the ";" that starts the params of the
\* last path segment, 0 if there is none
SplitParamsAt(url) ==
  IF "/" \in Range(url) THEN FindFrom(url, ";", RFind(url, "/")) ELSE Find(url, ";")

\* urlparse after urlsplit: the params are split off the path
SplitParams(p) ==
  [err |-> p.err, scheme |-> p.scheme, netloc |-> p.netloc,
   path |-> IF p.scheme \in UsesParams /\ SplitParamsAt(p.path) > 0
              THEN SubSeq(p.path, 1, SplitParamsAt(p.path) - 1) ELSE p.path,
   params |-> IF p.scheme \in UsesParams /\ SplitParamsAt(p.path) > 0
                THEN Drop(p.path, SplitParamsAt(p.path)) ELSE <<>>,
   query |-> p.query, fragment |-> p.fragment]

\* urlparse(url, scheme=default)
UrlParseDefault(url, default) == SplitParams(urlsplit(url, default))

urlparse(url) == UrlParseDefault(url, <<>>)

\* urlunsplit, last steps: scheme, query and fragment around the rest
UrlUnsplitTail(scheme, u, query, fragment) ==
  (IF scheme # <<>> THEN scheme \o <<":">> ELSE <<>>) \o u
  \o (IF query # <<>> THEN <<"?">> \o query ELSE <<>>)
  \o (IF fragment # <<>> THEN <<"#">> \o fragment ELSE <<>>)

\* urlunsplit((scheme, netloc, url, query, fragment))
urlunsplit(scheme, netloc, url, query, fragment) ==
  IF netloc # <<>> \/
     (scheme # <<>> /\ scheme \in UsesNetloc /\ Take(url, 2) # <<"/", "/">>)
    THEN UrlUnsplitTail(scheme,
           <<"/", "/">> \o netloc \o
             (IF url # <<>> /\ url[1] # "/" THEN <<"/">> ELSE <<>>) \o url,
           query, fragment)
    ELSE UrlUnsplitTail(scheme, url, query, fragment)

\* ParseResult.geturl(), i.e. urlunparse: non-empty params go back after ";"
geturl(p) ==
  urlunsplit(p.scheme, p.netloc,
             IF p.params # <<>> THEN p.path \o <<";">> \o p.params ELSE p.path,
             p.query, p.fragment)

\* the loop of urljoin that removes "." and ".." segments
RECURSIVE ResolveSegments(_, _)
ResolveSegments(segments, resolved) ==
  IF segments = <<>> THEN resolved
  ELSE LET seg == segments[1]
       IN  IF seg = <<".", ".">>
             THEN ResolveSegments(Tail(segments),
                    IF resolved = <<>> THEN <<>> ELSE SubSeq(resolved, 1, Len(resolved) - 1))
           ELSE IF seg = <<".">>
             THEN ResolveSegments(Tail(segments), resolved)
           ELSE ResolveSegments(Tail(segments), Append(resolved, seg))

\* segments[1:-1] = filter(None, segments[1:-1])
FilterMiddle(segments) ==
  IF Len(segments) <= 2 THEN segments
  ELSE <<segments[1]>> \o FilterNonEmpty(SubSeq(segments, 2, Len(segments) - 1))
       \o <<segments[Len(segments)]>>

\* urljoin, the relative-path case: the path of url resolved against bpath
UrlJoinPath(bpath, path) ==
  LET baseParts == IF SplitSlash(bpath)[Len(SplitSlash(bpath))] # <<>>
                     THEN SubSeq(SplitSlash(bpath), 1, Len(SplitSlash(bpath)) - 1)
                     ELSE SplitSlash(bpath)
      segments == IF Take(path, 1) = <<"/">>
                    THEN SplitSlash(path)
                    ELSE FilterMiddle(baseParts \o SplitSlash(path))
  IN  JoinSlash(IF segments[Len(segments)] \in {<<".">>, <<".", ".">>}
                  THEN Append(ResolveSegments(segments, <<>>), <<>>)
                  ELSE ResolveSegments(segments, <<>>))

\* urljoin after both urlparse calls: b is the parsed base, p the parsed url
UrlJoinParsed(url, b, p) ==
  IF b.err \/ p.err THEN [err |-> TRUE, url |-> <<>>]
  ELSE IF p.scheme # b.scheme \/ p.scheme \notin UsesRelative
    THEN [err |-> FALSE, url |-> url]
  ELSE IF p.scheme \in UsesNetloc /\ p.netloc # <<>>
    THEN [err |-> FALSE, url |-> geturl(p)]
  ELSE IF p.path = <<>> /\ p.params = <<>>
    THEN [err |-> FALSE,
          url |-> geturl([p EXCEPT !.netloc = IF p.scheme \in UsesNetloc THEN b.netloc ELSE @,
                                   !.path = b.path,
                                   !.params = b.params,
                                   !.query = IF @ = <<>> THEN b.query ELSE @])]
  ELSE [err |-> FALSE,
        url |-> geturl([p EXCEPT !.netloc = IF p.scheme \in UsesNetloc THEN b.netloc ELSE @,
                                 !.path = IF UrlJoinPath(b.path, @) = <<>> THEN <<"/">>
                                          ELSE UrlJoinPath(b.path, @)])]

\* urljoin(base, url): [err, url], err where Python raises ValueError
urljoin(base, url) ==
  IF base = <<>> THEN [err |-> FALSE, url |-> url]
  ELSE IF url = <<>> THEN [err |-> FALSE, url |-> base]
  ELSE UrlJoinParsed(url, urlparse(base), UrlParseDefault(url, urlparse(base).scheme))

(***************************************************************************)
(* crawl.py: the URL helpers                                               *)
(***************************************************************************)
\* path = parsed.path.rstrip("/") or "/"
NormalPath(path) == IF RStripSlash(path) = <<>> THEN <<"/">> ELSE RStripSlash(path)

\* normalize_url(url), for a url that urlparse accepts
normalize_url(url) ==
  geturl([urlparse(url) EXCEPT !.fragment = <<>>, !.path = NormalPath(@)])

\* is_internal(url, base_netloc)
is_internal(url, base_netloc) ==
  urlparse(url).netloc = base_netloc \/ urlparse(url).netloc = <<>>

\* the prefixes get_links skips: "#", "mailto:", "tel:", "javascript:"
SkipPrefixes ==
  { <<"#">>,
    <<"m","a","i","l","t","o",":">>,
    <<"t","e","l",":">>,
    <<"j","a","v","a","s","c","r","i","p","t",":">> }

\* lines 53-58 for one resolved href: "skip", "internal" or "external", and
\* "raise" where urlparse raises
Classify(absolute, base_netloc) ==
  IF urlparse(absolute).err THEN "raise"
  ELSE IF urlparse(absolute).scheme \notin {S_http, S_https} THEN "skip"
  ELSE IF is_internal(absolute, base_netloc) THEN "internal"
  ELSE "external"

\* lines 47-58 for one tag: [kind, url] with kind as in Classify
LinkOf(rawHref, page_url, base_netloc) ==
  IF \E pre \in SkipPrefixes : StartsWith(Strip(rawHref), pre)
    THEN [kind |-> "skip", url |-> <<>>]
  ELSE IF urljoin(page_url, Strip(rawHref)).err
    THEN [kind |-> "raise", url |-> <<>>]
  ELSE [kind |-> Classify(urljoin(page_url, Strip(rawHref)).url, base_netloc),
        url  |-> urljoin(page_url, Strip(rawHref)).url]

\* get_links(soup, page_url, base_netloc), soup given as the href values of
\* its <a href> tags in document order: [err, internal, external], err where
\* an exception leaves get_links
RECURSIVE GetLinksFrom(_, _, _, _, _)
GetLinksFrom(hrefs, page_url, base_netloc, internal, external) ==
  IF hrefs = <<>> THEN [err |-> FALSE, internal |-> internal, external |-> external]
  ELSE
    LET l == LinkOf(hrefs[1], page_url, base_netloc)
    IN  CASE l.kind = "raise" ->
               [err |-> TRUE, internal |-> internal, external |-> external]
          [] l.kind = "skip" ->
               GetLinksFrom(Tail(hrefs), page_url, base_netloc, internal, external)
          [] l.kind = "internal" ->
               GetLinksFrom(Tail(hrefs), page_url, base_netloc,
                            Append(internal, normalize_url(l.url)), external)
          [] l.kind = "external" ->
               GetLinksFrom(Tail(hrefs), page_url, base_netloc,
                            internal, Append(external, l.url))

get_links(hrefs, page_url, base_netloc) ==
  GetLinksFrom(hrefs, page_url, base_netloc, <<>>, <<>>)

\* sorted(set(xs)) for a list of str
RECURSIVE SortedSet(_)
SortedSet(S) ==
  IF S = {} THEN <<>>
  ELSE LET m == CHOOSE x \in S : \A y \in S \ {x} : StrLess(x, y)
       IN  <<m>> \o SortedSet(S \ {m})

\* sub in s, for str
Contains(s, sub) ==
  \E i \in 1..(Len(s) - Len(sub) + 1) : SubSeq(s, i, i + Len(sub) - 1) = sub

(***************************************************************************)
(* The site: what session.get can answer, and the pages it can serve       *)
(***************************************************************************)
\* Python's None: a sequence that no str equals, since a str is a sequence of
\* one-character strings
None == <<"None">>

H_root  == <<"/">>
H_a     == <<"/","a">>
H_aS    == <<"/","a","/">>
H_aFrag == <<"/","a","#","s">>
H_b     == <<"/","b">>
H_bS    == <<"/","b","/">>
H_c     == <<"c">>
H_upA   == <<".",".","/","a">>
H_ext   == <<"h","t","t","p","s",":","/","/","o",".","c","o","m","/">>
H_sub   == <<"/","/","s","u","b",".","x",".","c","o","m","/","a">>
H_top   == <<" ","#","t","o","p"," ">>
H_mail  == <<"m","a","i","l","t","o",":","m">>
H_tel   == <<"t","e","l",":","1">>
H_js    == <<"j","a","v","a","s","c","r","i","p","t",":","v">>
H_ftp   == <<"f","t","p",":","/","/","x",".","c","o","m","/","f">>
H_noHost == <<"h","t","t","p",":","/","c">>
H_bad   == <<"/","/","[">>

T_home  == <<" ","H","o","m","e"," ">>

\* a parsed page: its <title> (absent; present with a string; present with
\* .string None) and the href values of its <a href> tags in document order
Pages ==
  { [title |-> [present |-> TRUE,  string |-> T_home], hrefs |-> <<H_root, H_a, H_aS, H_b>>],
    [title |-> [present |-> FALSE, string |-> None],
     hrefs |-> <<H_aFrag, H_c, H_c, H_ext, H_sub, H_ext>>],
    [title |-> [present |-> TRUE,  string |-> <<"B">>],
     hrefs |-> <<H_top, H_mail, H_ftp, H_bS, H_noHost, H_upA>>],
    [title |-> [present |-> TRUE,  string |-> None], hrefs |-> <<H_root>>],
    [title |-> [present |-> TRUE,  string |-> <<"E">>], hrefs |-> <<H_b, H_bad, H_a>>],
    [title |-> [present |-> FALSE, string |-> None], hrefs |-> <<>>] }

CT_html == <<"t","e","x","t","/","h","t","m","l">>
CT_pdf  == <<"a","p","p","l","i","c","a","t","i","o","n","/","p","d","f">>
NoPage  == [title |-> [present |-> FALSE, string |-> None], hrefs |-> <<>>]

\* what session.get(url) can do: raise a RequestException, or return a
\* response with a status, a Content-Type header and a body
Responses(u) ==
  IF urlparse(u).netloc = <<>>
    THEN {[exc |-> TRUE, status_code |-> 0, content_type |-> <<>>, page |-> NoPage]}
    ELSE {[exc |-> TRUE, status_code |-> 0, content_type |-> <<>>, page |-> NoPage],
          [exc |-> FALSE, status_code |-> 404, content_type |-> CT_html, page |-> NoPage],
          [exc |-> FALSE, status_code |-> 200, content_type |-> CT_pdf, page |-> NoPage],
          [exc |-> FALSE, status_code |-> 300, content_type |-> CT_html, page |-> NoPage]}
         \cup {[exc |-> FALSE, status_code |-> 200, content_type |-> CT_html, page |-> pg] :
                 pg \in Pages}

\* the start_url values crawl is called with
U_seed  == <<"h","t","t","p","s",":","/","/","x",".","c","o","m">>
U_seedA == <<"h","t","t","p","s",":","/","/","x",".","c","o","m","/","a","/","#","s">>
StartUrls == {U_seed, U_seedA}

(***************************************************************************)
(* scrape_page                                                             *)
(***************************************************************************)
\* resp.raise_for_status() raises HTTPError (a RequestException)
RaisesForStatus(status_code) == status_code >= 400 /\ status_code < 600

\* a scrape_page without the Content-Type test of line 68
scrape_page_any_type(u, r) ==
  IF r.exc \/ RaisesForStatus(r.status_code) THEN [kind |-> "none"]
  ELSE IF r.page.title.present /\ r.page.title.string = None THEN [kind |-> "raise"]
  ELSE [kind |-> "dict",
        data |-> [url |-> u,
                  title |-> IF r.page.title.present THEN Strip(r.page.title.string)
                            ELSE <<>>,
                  status_code |-> r.status_code,
                  content_type |-> r.content_type,
                  html |-> r.page]]

\* scrape_page(url, session) on the response r of session.get:
\* kind "none" (returns None), "raise" (an exception that is not a
\* RequestException leaves scrape_page) or "dict" (returns data)
scrape_page(u, r) ==
  IF r.exc \/ RaisesForStatus(r.status_code) THEN [kind |-> "none"]
  ELSE IF ~Contains(r.content_type, <<"h","t","m","l">>) THEN [kind |-> "none"]
  ELSE IF r.page.title.present /\ r.page.title.string = None THEN [kind |-> "raise"]
  ELSE [kind |-> "dict",
        data |-> [url |-> u,
                  title |-> IF r.page.title.present THEN Strip(r.page.title.string)
                            ELSE <<>>,
                  status_code |-> r.status_code,
                  content_type |-> r.content_type,
                  html |-> r.page]]

\* {k: v for k, v in data.items() if k != "html"}
WithoutHtml(data) == [k \in DOMAIN data \ {"html"} |-> data[k]]

\* record["external_links"] = links
WithExternalLinks(record, links) ==
  [k \in DOMAIN record \cup {"external_links"} |->
     IF k = "external_links" THEN links ELSE record[k]]

\* an enqueue loop without "link not in queue"
RECURSIVE EnqueueAllNoQueueCheck(_, _, _)
EnqueueAllNoQueueCheck(links, vis, q) ==
  IF links = <<>> THEN q
  ELSE EnqueueAllNoQueueCheck(Tail(links), vis,
                  IF links[1] \notin vis THEN Append(q, links[1]) ELSE q)

\* an enqueue loop without "link not in visited"
RECURSIVE EnqueueAllNoVisitedCheck(_, _, _)
EnqueueAllNoVisitedCheck(links, vis, q) ==
  IF links = <<>> THEN q
  ELSE EnqueueAllNoVisitedCheck(Tail(links), vis,
                  IF links[1] \notin Range(q) THEN Append(q, links[1]) ELSE q)

\* an enqueue loop that leaves at the first known link (break for continue)
RECURSIVE EnqueueAllBreak(_, _, _)
EnqueueAllBreak(links, vis, q) ==
  IF links = <<>> THEN q
  ELSE IF links[1] \notin vis /\ links[1] \notin Range(q)
    THEN EnqueueAllBreak(Tail(links), vis, Append(q, links[1]))
  ELSE q

\* for link in internal_links: if link not in visited and link not in queue:
\*     queue.append(link)
RECURSIVE EnqueueAll(_, _, _)
EnqueueAll(links, vis, q) ==
  IF links = <<>> THEN q
  ELSE EnqueueAll(Tail(links), vis,
                  IF links[1] \notin vis /\ links[1] \notin Range(q)
                    THEN Append(q, links[1]) ELSE q)

(***************************************************************************)
(* crawl                                                                   *)
(***************************************************************************)
VARIABLES
  pc,              \* where crawl is: "loop" (line 95), "fetch" (102), "get" (inside
                   \* session.get, line 65, waiting for the answer), "links" (110),
                   \* "enqueue" (116), "sleep" (121), "done" (returned), "raised"
  start_url,       \* the argument of crawl
  base_netloc,     \* line 89
  visited,         \* line 90
  queue,           \* line 91
  results,         \* line 92
  url,             \* line 96, None before the first iteration
  data,            \* line 102, None before the first fetch
  internal_links,  \* line 111
  site,            \* history: the response session.get gave for each url
  fetched,         \* history: the urls passed to session.get, in order
  slept,           \* history: time.sleep(DELAY) has run since the last session.get
  arg, ret         \* the argument and result of a single call of normalize_url

vars == <<pc, start_url, base_netloc, visited, queue, results, url, data,
          internal_links, site, fetched, slept, arg, ret>>

\* lines 89-92
Init ==
  /\ start_url \in StartUrls
  /\ base_netloc = urlparse(start_url).netloc
  /\ visited = {}
  /\ queue = <<normalize_url(start_url)>>
  /\ results = <<>>
  /\ pc = "loop"
  /\ url = None
  /\ data = None
  /\ internal_links = <<>>
  /\ site = <<>>
  /\ fetched = <<>>
  /\ slept = FALSE
  /\ arg = None
  /\ ret = None

\* a loop head without visited.add(url)
DequeueNoMark ==
  /\ pc = "loop"
  /\ queue # <<>>
  /\ url' = Head(queue)
  /\ queue' = Tail(queue)
  /\ IF Head(queue) \in visited
       THEN visited' = visited /\ pc' = "loop"
       ELSE visited' = visited /\ pc' = "fetch"
  /\ UNCHANGED <<start_url, base_netloc, results, data, internal_links, site,
                 fetched, slept, arg, ret>>

\* a loop head that pops the tail of the queue: queue.pop() for queue.pop(0)
DequeueLifo ==
  /\ pc = "loop"
  /\ queue # <<>>
  /\ url' = queue[Len(queue)]
  /\ queue' = SubSeq(queue, 1, Len(queue) - 1)
  /\ IF queue[Len(queue)] \in visited
       THEN visited' = visited /\ pc' = "loop"
       ELSE visited' = visited \cup {queue[Len(queue)]} /\ pc' = "fetch"
  /\ UNCHANGED <<start_url, base_netloc, results, data, internal_links, site,
                 fetched, slept, arg, ret>>

\* lines 95-99: while queue: url = queue.pop(0); if url in visited: continue;
\* visited.add(url)
Dequeue ==
  /\ pc = "loop"
  /\ queue # <<>>
  /\ url' = Head(queue)
  /\ queue' = Tail(queue)
  /\ IF Head(queue) \in visited
       THEN visited' = visited /\ pc' = "loop"
       ELSE visited' = visited \cup {Head(queue)} /\ pc' = "fetch"
  /\ UNCHANGED <<start_url, base_netloc, results, data, internal_links, site,
                 fetched, slept, arg, ret>>

\* lines 95 and 123: the queue is empty, return results
Return ==
  /\ pc = "loop"
  /\ queue = <<>>
  /\ pc' = "done"
  /\ UNCHANGED <<start_url, base_netloc, visited, queue, results, url, data,
                 internal_links, site, fetched, slept, arg, ret>>

\* line 102 down to line 65: scrape_page(url, session) passes url to
\* session.get, which then waits for the answer (for TIMEOUT seconds at most)
SessionGet ==
  /\ pc = "fetch"
  /\ fetched' = Append(fetched, url)
  /\ slept' = FALSE
  /\ pc' = "get"
  /\ UNCHANGED <<start_url, base_netloc, visited, queue, results, url, data,
                 internal_links, site, arg, ret>>

\* lines 65-85 and 102-107: session.get answers or raises, scrape_page
\* returns; data = scrape_page(url, session); if data is None: continue;
\* results.append(data without html)
Scrape ==
  /\ pc = "get"
  /\ \E r \in Responses(url) :
       LET out == scrape_page(url, r)
       IN  /\ site' = [u \in DOMAIN site \cup {url} |-> IF u = url THEN r ELSE site[u]]
           /\ CASE out.kind = "none" ->
                     /\ data' = None
                     /\ pc' = "loop"
                     /\ UNCHANGED results
                [] out.kind = "raise" ->
                     /\ pc' = "raised"
                     /\ UNCHANGED <<data, results>>
                [] out.kind = "dict" ->
                     /\ data' = out.data
                     /\ results' = Append(results, WithoutHtml(out.data))
                     /\ pc' = "links"
  /\ UNCHANGED <<start_url, base_netloc, visited, queue, url, internal_links, fetched,
                 slept, arg, ret>>

\* an iteration that stores external_links in results[0], not in results[-1]
ExtractLinksIntoFirst ==
  /\ pc = "links"
  /\ LET g == get_links(data.html.hrefs, url, base_netloc)
     IN  IF g.err
           THEN /\ pc' = "raised"
                /\ UNCHANGED <<results, internal_links>>
           ELSE /\ internal_links' = g.internal
                /\ results' = [results EXCEPT ![1] =
                                 WithExternalLinks(@, SortedSet(Range(g.external)))]
                /\ pc' = "enqueue"
  /\ UNCHANGED <<start_url, base_netloc, visited, queue, url, data, site, fetched,
                 slept, arg, ret>>

\* an iteration that stores external_links as get_links returned it
ExtractLinksAsReturned ==
  /\ pc = "links"
  /\ LET g == get_links(data.html.hrefs, url, base_netloc)
     IN  IF g.err
           THEN /\ pc' = "raised"
                /\ UNCHANGED <<results, internal_links>>
           ELSE /\ internal_links' = g.internal
                /\ results' = [results EXCEPT ![Len(results)] =
                                 WithExternalLinks(@, g.external)]
                /\ pc' = "enqueue"
  /\ UNCHANGED <<start_url, base_netloc, visited, queue, url, data, site, fetched,
                 slept, arg, ret>>

\* lines 110-114: get_links on the page; results[-1]["external_links"] =
\* sorted(set(external_links))
ExtractLinks ==
  /\ pc = "links"
  /\ LET g == get_links(data.html.hrefs, url, base_netloc)
     IN  IF g.err
           THEN /\ pc' = "raised"
                /\ UNCHANGED <<results, internal_links>>
           ELSE /\ internal_links' = g.internal
                /\ results' = [results EXCEPT ![Len(results)] =
                                 WithExternalLinks(@, SortedSet(Range(g.external)))]
                /\ pc' = "enqueue"
  /\ UNCHANGED <<start_url, base_netloc, visited, queue, url, data, site, fetched,
                 slept, arg, ret>>

\* an enqueue that starts from an empty queue and so forgets the frontier
EnqueueForgets ==
  /\ pc = "enqueue"
  /\ queue' = EnqueueAll(internal_links, visited, <<>>)
  /\ pc' = "sleep"
  /\ UNCHANGED <<start_url, base_netloc, visited, results, url, data, internal_links,
                 site, fetched, slept, arg, ret>>

\* lines 116-118
Enqueue ==
  /\ pc = "enqueue"
  /\ queue' = EnqueueAll(internal_links, visited, queue)
  /\ pc' = "sleep"
  /\ UNCHANGED <<start_url, base_netloc, visited, results, url, data, internal_links,
                 site, fetched, slept, arg, ret>>

\* lines 120-121: time.sleep(DELAY), then the next iteration
Sleep ==
  /\ pc = "sleep"
  /\ slept' = TRUE
  /\ pc' = "loop"
  /\ UNCHANGED <<start_url, base_netloc, visited, queue, results, url, data,
                 internal_links, site, fetched, arg, ret>>

Next == Dequeue \/ Return \/ SessionGet \/ Scrape \/ ExtractLinks \/ Enqueue \/ Sleep

Spec == Init /\ [][Next]_vars

(***************************************************************************)
(* crawl under a signal: crawl() and main() install no handler and catch   *)
(* no KeyboardInterrupt, so a SIGINT raises it at whatever line is         *)
(* running, session.get (while it waits for the answer) and time.sleep     *)
(* included, and it leaves crawl() through every frame (it is no           *)
(* RequestException); crawl() returns nothing and the local results is     *)
(* dropped.  The code has no deadline.                                     *)
(***************************************************************************)
Interrupt ==
  /\ pc \in {"loop", "fetch", "get", "links", "enqueue", "sleep"}
  /\ pc' = "interrupted"
  /\ UNCHANGED <<start_url, base_netloc, visited, queue, results, url, data,
                 internal_links, site, fetched, slept, arg, ret>>

NextCancel == Next \/ Interrupt

SpecCancel == Init /\ [][NextCancel]_vars

(***************************************************************************)
(* normalize_url on its own: one call on each url of a bounded set         *)
(***************************************************************************)
MaxPathLen == 5

RECURSIVE SeqsUpTo(_, _)
SeqsUpTo(S, n) ==
  IF n = 0 THEN {<<>>}
  ELSE SeqsUpTo(S, n - 1) \cup {Append(t, c) : t \in SeqsUpTo(S, n - 1), c \in S}

N_schemes == {<<>>, S_http \o <<":">>, S_https \o <<":">>, <<"H","T","T","P",":">>}
N_hosts   == {<<>>, <<"/","/","x",".","c","o","m">>,
              <<"/","/","s","u","b",".","x",".","c","o","m">>}
N_paths   == SeqsUpTo({"/", "a"}, MaxPathLen)
N_tails   == {<<>>, <<"?">>, <<"?","q">>, <<"#","s">>, <<"?","q","#","s">>}

NormInputs == {s \o h \o p \o t : s \in N_schemes, h \in N_hosts, p \in N_paths, t \in N_tails}

InitNorm ==
  /\ arg \in NormInputs
  /\ ret = None
  /\ pc = "call"
  /\ start_url = None
  /\ base_netloc = None
  /\ visited = {}
  /\ queue = <<>>
  /\ results = <<>>
  /\ url = None
  /\ data = None
  /\ internal_links = <<>>
  /\ site = <<>>
  /\ fetched = <<>>
  /\ slept = FALSE

\* lines 30-34
NormalizeCall ==
  /\ pc = "call"
  /\ ret' = normalize_url(arg)
  /\ pc' = "returned"
  /\ UNCHANGED <<start_url, base_netloc, visited, queue, results, url, data,
                 internal_links, site, fetched, slept, arg>>

NextNorm == NormalizeCall

SpecNorm == InitNorm /\ [][NextNorm]_vars

(***************************************************************************)
(* normalize_url on two urls that differ by their fragment, by one         *)
(* trailing slash of the path, or by both                                  *)
(***************************************************************************)
MaxPairPathLen == 4

P_prefixes  == {<<>>, <<"/","/","x",".","c","o","m">>,
                S_https \o <<":","/","/","x",".","c","o","m">>}
P_paths     == SeqsUpTo({"/", "a", ";"}, MaxPairPathLen)
P_queries   == {<<>>, <<"?","q">>}
P_fragments == {<<>>, <<"#","s">>}
P_slashes   == {<<>>, <<"/">>}

PairInputs ==
  { <<h \o p \o q \o f1, h \o p \o sl \o q \o f2>> :
      h \in P_prefixes, p \in P_paths, q \in P_queries,
      f1 \in P_fragments, f2 \in P_fragments, sl \in P_slashes }

InitPair ==
  /\ arg \in PairInputs
  /\ ret = None
  /\ pc = "call"
  /\ start_url = None
  /\ base_netloc = None
  /\ visited = {}
  /\ queue = <<>>
  /\ results = <<>>
  /\ url = None
  /\ data = None
  /\ internal_links = <<>>
  /\ site = <<>>
  /\ fetched = <<>>
  /\ slept = FALSE

\* lines 30-34, once on each url of the pair
NormalizePair ==
  /\ pc = "call"
  /\ ret' = <<normalize_url(arg[1]), normalize_url(arg[2])>>
  /\ pc' = "returned"
  /\ UNCHANGED <<start_url, base_netloc, visited, queue, results, url, data,
                 internal_links, site, fetched, slept, arg>>

NextPair == NormalizePair

SpecPair == InitPair /\ [][NextPair]_vars

(***************************************************************************)
(* get_links on its own: one call on each bounded list of href values      *)
(***************************************************************************)
MaxHrefs == 3

\* an external href that normalize_url would change: "https://o.com/p/#f"
H_extFrag == <<"h","t","t","p","s",":","/","/","o",".","c","o","m","/","p","/","#","f">>

\* an href with another scheme than the page and an empty host in front of
\* a path that starts with "//": "http:////o.com/x"
H_slashes == <<"h","t","t","p",":","/","/","/","/","o",".","c","o","m","/","x">>

L_hrefs == {H_a, H_aS, H_aFrag, H_c, H_extFrag, H_sub, H_top, H_mail, H_tel, H_js,
            H_ftp, H_noHost, H_bad, H_slashes}
L_pages == {normalize_url(U_seedA)}

InitLinks ==
  /\ arg \in SeqsUpTo(L_hrefs, MaxHrefs)
  /\ url \in L_pages
  /\ base_netloc = urlparse(U_seed).netloc
  /\ ret = None
  /\ pc = "call"
  /\ start_url = None
  /\ visited = {}
  /\ queue = <<>>
  /\ results = <<>>
  /\ data = None
  /\ internal_links = <<>>
  /\ site = <<>>
  /\ fetched = <<>>
  /\ slept = FALSE

\* lines 43-59; a ValueError that leaves get_links is ret.err
GetLinksCall ==
  /\ pc = "call"
  /\ ret' = get_links(arg, url, base_netloc)
  /\ pc' = "returned"
  /\ UNCHANGED <<start_url, base_netloc, visited, queue, results, url, data,
                 internal_links, site, fetched, slept, arg>>

NextLinks == GetLinksCall

SpecLinks == InitLinks /\ [][NextLinks]_vars

(***************************************************************************)
(* Properties                                                              *)
(***************************************************************************)
NoDup(seq) == \A i, j \in DOMAIN seq : i # j => seq[i] # seq[j]

ResultUrls == [i \in DOMAIN results |-> results[i].url]

\* the fetch of a url did not give a page: session.get or raise_for_status
\* raised a RequestException, or the Content-Type is not HTML
FetchFailed(r) ==
  r.exc \/ r.status_code >= 400 \/ ~Contains(r.content_type, <<"h","t","m","l">>)

\* C1: each normalized URL is fetched at most once, no two records carry the
\* same url, and there are at most as many records as visited URLs
C1_FetchedOnce ==
  /\ NoDup(fetched)
  /\ NoDup(ResultUrls)
  /\ Len(results) <= Cardinality(visited)

\* a page has just linked back to URLs that were fetched before it
C1_Witness ==
  /\ pc = "sleep"
  /\ Len(results) >= 2
  /\ \E i \in DOMAIN internal_links :
       internal_links[i] \in visited /\ internal_links[i] # url

\* C2: at the top of the loop the frontier holds no visited URL and no URL twice
C2_FrontierInvariant ==
  pc = "loop" => (Range(queue) \cap visited = {} /\ NoDup(queue))

\* back at the top of the loop after a page with a self-link, a link given
\* twice (in two spellings) and a link that the frontier then holds
C2_Witness ==
  /\ pc = "loop"
  /\ slept
  /\ url \in Range(internal_links)
  /\ ~NoDup(internal_links)
  /\ \E i \in DOMAIN data.html.hrefs : Strip(data.html.hrefs[i]) = H_aS
  /\ Range(internal_links) \cap Range(queue) # {}

\* the loop head of an iteration: u leaves the head of the frontier and
\* enters visited, and nothing else changes
HeadStep ==
  (pc = "loop" /\ pc' = "fetch") =>
     /\ queue = <<url'>> \o queue'
     /\ visited' = visited \cup {url'}
     /\ results' = results

\* the rest of an iteration whose fetch gives the response r: no record, no
\* link extracted or enqueued, back to the top of the loop
SkipStep(r) ==
  /\ results' = results
  /\ queue' = queue
  /\ url \notin Range(queue')
  /\ visited' = visited
  /\ url \in visited'
  /\ internal_links' = internal_links
  /\ pc' = "loop"

\* the call of session.get: nothing of the crawl changes while it is issued
GetStep ==
  (pc = "fetch" /\ pc' = "get") =>
     /\ fetched' = Append(fetched, url)
     /\ results' = results
     /\ queue' = queue
     /\ visited' = visited

\* the response that session.get gives in this step
Fetching(r) == pc = "get" /\ fetched[Len(fetched)] = url /\ site'[url] = r

\* C3 as stated: a fetch that fails (exception, or any status outside 2xx) or
\* is not HTML adds u to visited and changes nothing else
C3_AsStated ==
  [][ /\ HeadStep
      /\ GetStep
      /\ pc = "get" =>
           \A r \in Responses(url) :
             (Fetching(r) /\ (r.exc \/ r.status_code \notin 200..299
                              \/ ~Contains(r.content_type, <<"h","t","m","l">>)))
             => SkipStep(r) ]_vars

\* C3: a fetch that raises a RequestException (transport error, or a 4xx/5xx
\* status through raise_for_status) or is not HTML adds u to visited and
\* changes nothing else: no record, frontier = old frontier minus u, next item
C3_FailedFetchSkips ==
  [][ /\ HeadStep
      /\ GetStep
      /\ pc = "get" =>
           \A r \in Responses(url) : (Fetching(r) /\ FetchFailed(r)) => SkipStep(r) ]_vars

\* a 200 response that is not HTML was skipped while the frontier still holds
\* a URL, after a page had been recorded
C3_Witness ==
  /\ pc = "loop"
  /\ url \in DOMAIN site
  /\ site[url].status_code = 200
  /\ FetchFailed(site[url])
  /\ fetched[Len(fetched)] = url
  /\ url \in visited
  /\ queue # <<>>
  /\ Len(results) = 1

\* C4 as stated: no outcome of fetching, parsing or link-extracting one page
\* ends crawl() with an exception
C4_NoPageEndsTheRun == pc # "raised"

\* C5: a URL whose fetch failed or was skipped is never in the frontier again
\* and never fetched again, whatever later pages link to
C5_NoRetry ==
  \A u \in DOMAIN site :
    FetchFailed(site[u]) =>
      /\ u \notin Range(queue)
      /\ Cardinality({i \in DOMAIN fetched : fetched[i] = u}) = 1

\* a later page has linked to a URL whose fetch had failed, and the enqueue
\* loop has run over that link
C5_Witness ==
  /\ pc = "sleep"
  /\ \E i \in DOMAIN internal_links :
       /\ internal_links[i] # url
       /\ internal_links[i] \in DOMAIN site
       /\ FetchFailed(site[internal_links[i]])

\* the internal links found on the page fetched for u, if u gave an HTML page
InternalLinksOf(u) ==
  IF u \in DOMAIN site /\ ~FetchFailed(site[u])
     /\ ~get_links(site[u].page.hrefs, u, base_netloc).err
    THEN Range(get_links(site[u].page.hrefs, u, base_netloc).internal)
    ELSE {}

\* the URLs reachable from the URLs of R by internal links of fetched pages
RECURSIVE ReachFrom(_)
ReachFrom(R) ==
  LET N == R \cup UNION {InternalLinksOf(u) : u \in R}
  IN  IF N = R THEN R ELSE ReachFrom(N)

Reachable == ReachFrom({normalize_url(start_url)})

\* C6: when crawl() returns, every URL reachable from the normalized seed by
\* internal links of successfully fetched pages was attempted, and each of
\* them whose fetch succeeded has a record
C6_ReachableAttempted ==
  pc = "done" =>
    \A u \in Reachable :
      /\ u \in visited
      /\ u \in DOMAIN site
      /\ ~FetchFailed(site[u]) => u \in Range(ResultUrls)

\* crawl() returned after four URLs, one of them two links from the seed and
\* one of them failed
C6_Witness ==
  /\ pc = "done"
  /\ Cardinality(Reachable) >= 4
  /\ \E u \in Reachable : FetchFailed(site[u])
  /\ \E u \in Reachable :
       /\ ~FetchFailed(site[u])
       /\ u \notin InternalLinksOf(normalize_url(start_url)) \cup {normalize_url(start_url)}

\* C7 as stated (its safety half): the loop is left only with the frontier
\* exhausted
C7_ExitOnlyOnExhaustion ==
  pc \in {"done", "raised"} => (pc = "done" /\ queue = <<>>)

\* the URLs by link distance from the seed: the seed, then the URLs first
\* linked from the seed's page, then those first linked from their pages, ...
RECURSIVE LevelsFrom(_, _)
LevelsFrom(level, seen) ==
  IF level = {} THEN <<>>
  ELSE <<level>> \o LevelsFrom((UNION {InternalLinksOf(v) : v \in level}) \ (seen \cup level),
                               seen \cup level)

Levels == LevelsFrom({normalize_url(start_url)}, {})

\* the shortest link distance of u from the seed, -1 if there is none
DepthIn(levels, u) ==
  IF \E k \in DOMAIN levels : u \in levels[k]
    THEN (CHOOSE k \in DOMAIN levels : u \in levels[k]) - 1
    ELSE -1

IsRecorded(u) == u \in Range(ResultUrls)

\* C8: the fetched URLs are in non-decreasing discovery depth, and the records
\* are in the order of their fetches
C8_BreadthFirst ==
  LET levels == Levels
      depth  == [i \in DOMAIN fetched |-> DepthIn(levels, fetched[i])]
  IN  /\ \A i \in DOMAIN fetched : depth[i] >= 0
      /\ \A i, j \in DOMAIN fetched : i < j => depth[i] <= depth[j]
      /\ ResultUrls = SelectSeq(fetched, IsRecorded)

\* two URLs of depth 1 were fetched before one of depth 2, the second of them
\* while the frontier already held the URL of depth 2
C8_Witness ==
  /\ Len(fetched) >= 4
  /\ DepthIn(Levels, fetched[2]) = 1
  /\ DepthIn(Levels, fetched[3]) = 1
  /\ DepthIn(Levels, fetched[4]) = 2
  /\ fetched[4] \in InternalLinksOf(fetched[2])
  /\ Len(results) >= 3

\* C9 as stated: a delay step lies between any two consecutive fetches
C9_DelayBetweenFetches ==
  (pc = "fetch" /\ fetched # <<>>) => slept

\* the components of the URL that normalize_url returned are those of its
\* argument, but for the fragment, which is empty, and the path, which is
\* newPath
Normalized(newPath) ==
  /\ urlparse(ret).scheme = urlparse(arg).scheme
  /\ urlparse(ret).netloc = urlparse(arg).netloc
  /\ urlparse(ret).query = urlparse(arg).query
  /\ urlparse(ret).fragment = <<>>
  /\ urlparse(ret).path = newPath

\* C10: for every URL, scheme, host and query are kept, the fragment
\* is dropped, and the path becomes "/" if it is empty or "/", and otherwise
\* loses at most one trailing slash
C10_AsStated ==
  pc = "returned" =>
    Normalized(IF urlparse(arg).path \in {<<>>, <<"/">>} THEN <<"/">>
               ELSE IF urlparse(arg).path[Len(urlparse(arg).path)] = "/"
                 THEN SubSeq(urlparse(arg).path, 1, Len(urlparse(arg).path) - 1)
               ELSE urlparse(arg).path)

\* a and b have the same scheme, host and query, and the path of b is the
\* path of a, or that path, which is not the root, with one "/" after it
DifferByFragmentOrSlash(a, b) ==
  /\ ~urlsplit(a, <<>>).err /\ ~urlsplit(b, <<>>).err
  /\ urlsplit(a, <<>>).scheme = urlsplit(b, <<>>).scheme
  /\ urlsplit(a, <<>>).netloc = urlsplit(b, <<>>).netloc
  /\ urlsplit(a, <<>>).query = urlsplit(b, <<>>).query
  /\ \/ urlsplit(b, <<>>).path = urlsplit(a, <<>>).path
     \/ /\ urlsplit(a, <<>>).path \notin {<<>>, <<"/">>}
        /\ urlsplit(b, <<>>).path = urlsplit(a, <<>>).path \o <<"/">>

\* C11: two URLs that differ only by their fragment, or by a single trailing
\* slash on a path that is not the root, have the same normalize_url, so that
\* the crawl holds them as one page.
C11_VariantsNormalizeEqual ==
  (pc = "returned" /\ DifferByFragmentOrSlash(arg[1], arg[2])) => ret[1] = ret[2]

\* the href of tag i, trimmed, and what every tag resolves to against the
\* page url
Trimmed(hrefs, i) == Strip(hrefs[i])
ResolvedTags(hrefs, page_url) ==
  [i \in DOMAIN hrefs |-> urljoin(page_url, Trimmed(hrefs, i))]

\* tag i is not dropped for its prefix
PastPrefix(hrefs, i) ==
  \A pre \in SkipPrefixes : ~StartsWith(Trimmed(hrefs, i), pre)

\* the tags that remain after the prefix test and the scheme test
KeptTags(hrefs, res) ==
  {i \in DOMAIN hrefs :
     PastPrefix(hrefs, i) /\ urlparse(res[i].url).scheme \in {S_http, S_https}}

InternalTags(hrefs, res, netloc) ==
  {i \in KeptTags(hrefs, res) : urlparse(res[i].url).netloc \in {netloc, <<>>}}

\* the k-th smallest member of a set of indices
NthOf(S, k) == CHOOSE i \in S : Cardinality({j \in S : j < i}) = k - 1

\* what get_links is to return for the tags int and ext
PipelineResult(r, res, int, ext) ==
  /\ ~r.err
  /\ Len(r.internal) = Cardinality(int)
  /\ \A k \in DOMAIN r.internal : r.internal[k] = normalize_url(res[NthOf(int, k)].url)
  /\ Len(r.external) = Cardinality(ext)
  /\ \A k \in DOMAIN r.external : r.external[k] = res[NthOf(ext, k)].url

\* C12: for every list of hrefs, get_links returns, and returns as internal
\* the normalized resolved urls of the tags that pass the prefix test and the
\* scheme test and are internal, and as external the resolved urls, not
\* normalized, of those that pass and are not internal, both in document
\* order with duplicates retained.
C12_GetLinksPipeline ==
  LET res == ResolvedTags(arg, url)
  IN  pc = "returned" =>
        PipelineResult(ret, res, InternalTags(arg, res, base_netloc),
                       KeptTags(arg, res) \ InternalTags(arg, res, base_netloc))

\* the tags among S that urljoin and urlparse accept
WellFormedTags(S, res) == {i \in S : ~res[i].err /\ ~urlparse(res[i].url).err}

\* C13: an href that cannot be resolved or parsed is skipped on its own:
\* get_links returns, and returns what the other hrefs of the page yield.
C13_MalformedHrefSkipped ==
  LET res == ResolvedTags(arg, url)
  IN  pc = "returned" =>
        PipelineResult(ret, res,
                       WellFormedTags(InternalTags(arg, res, base_netloc), res),
                       WellFormedTags(KeptTags(arg, res), res)
                         \ InternalTags(arg, res, base_netloc))

\* the external absolute urls of the page that was served for u
ExternalUrlsOf(hrefs, res) ==
  {res[j].url : j \in KeptTags(hrefs, res) \ InternalTags(hrefs, res, base_netloc)}

\* a list of str in strictly ascending order, hence without duplicates
StrictlySorted(xs) == \A k \in 1..(Len(xs) - 1) : StrLess(xs[k], xs[k + 1])

\* record i is complete: its iteration is past line 114
PastExtraction(i) == i < Len(results) \/ pc \notin {"links", "raised"}

\* C14: the external_links of each record is the set of the external
\* absolute URLs extracted from the page of that record, without duplicates
\* and in ascending order; every record has it once line 114 has run.
C14_ExternalLinks ==
  \A i \in DOMAIN results :
    /\ PastExtraction(i) => "external_links" \in DOMAIN results[i]
    /\ "external_links" \in DOMAIN results[i] =>
         /\ StrictlySorted(results[i].external_links)
         /\ Range(results[i].external_links) =
              ExternalUrlsOf(site[results[i].url].page.hrefs,
                             ResolvedTags(site[results[i].url].page.hrefs, results[i].url))

\* a record lists two external URLs of a page that links to one of them
\* twice and has internal links too, next to a record of a page without
\* external links
C14_Witness ==
  \E i, j \in DOMAIN results :
    /\ "external_links" \in DOMAIN results[i]
    /\ Len(results[i].external_links) = 2
    /\ Len(SelectSeq(site[results[i].url].page.hrefs, LAMBDA h : h = H_ext)) = 2
    /\ H_aFrag \in Range(site[results[i].url].page.hrefs)
    /\ "external_links" \in DOMAIN results[j]
    /\ results[j].external_links = <<>>
    /\ H_a \in Range(site[results[j].url].page.hrefs)

\* C15: when a cancellation arrives at any point of crawl(), no new fetch is
\* issued and crawl() returns the records accumulated so far, none of them
\* partially built (each has its external_links).
C15_CancellationReturnsResults ==
  [][Interrupt =>
       /\ pc' = "done"
       /\ fetched' = fetched
       /\ \A i \in DOMAIN results' : "external_links" \in DOMAIN results'[i]]_vars

\* the discovered URLs: the normalized seed and every internal link extracted
\* from a page fetched so far
Discovered ==
  {normalize_url(start_url)} \cup UNION {InternalLinksOf(u) : u \in DOMAIN site}

\* frontier and visited are disjoint, and together they are the discovered URLs
Partition ==
  /\ Range(queue) \cap visited = {}
  /\ Range(queue) \cup visited = Discovered

\* C16: at the top of every loop iteration the discovered URLs are the
\* disjoint union of frontier and visited; visited only grows; a URL leaves
\* the frontier only into visited, where it was not before, and a visited URL
\* is never in the frontier again.  (Every state at the top of the loop has a
\* step, Dequeue or Return, so the first conjunct covers all of them.)
C16_FrontierVisitedPartition ==
  [][/\ pc = "loop" => Partition
     /\ visited \subseteq visited'
     /\ \A u \in Range(queue) \ Range(queue') : u \in visited' \ visited
     /\ Range(queue') \cap visited = {}]_vars

\* at the top of the loop with two URLs visited, one of them a page that
\* links back to a visited URL, and a URL waiting in the frontier
C16_Witness ==
  /\ pc = "loop"
  /\ Cardinality(visited) >= 2
  /\ queue # <<>>
  /\ \E u \in visited : InternalLinksOf(u) \cap visited # {}
  /\ \E u \in visited : InternalLinksOf(u) \cap Range(queue) # {}

\* C17: every URL that enters the frontier, that is every internal link that
\* get_links returns (lines 116-118 enqueue them as they are), has the host of
\* the seed or an empty host; a link to another host is never enqueued.
C17_InternalLinksOnSeedHost ==
  (pc = "returned" /\ ~ret.err) =>
    \A k \in DOMAIN ret.internal :
      urlparse(ret.internal[k]).netloc \in {base_netloc, <<>>}

\* record i was created by the iteration that is running
InOwnIteration(i) == results[i].url = url /\ pc \in {"links", "enqueue", "sleep"}

\* C18: results is append-only: no step removes a record, and a step leaves
\* every record in its place and as it is, unless the record was created by
\* the iteration that takes the step.
C18_ResultsAppendOnly ==
  [][/\ Len(results') >= Len(results)
     /\ \A i \in DOMAIN results :
          ~InOwnIteration(i) => results'[i] = results[i]]_vars

\* a later iteration has appended its record and stored its external_links
\* behind a finished record that has external links of its own
C18_Witness ==
  /\ pc = "enqueue"
  /\ Len(results) >= 2
  /\ "external_links" \in DOMAIN results[Len(results)]
  /\ results[1].external_links # <<>>
  /\ results[1].external_links # results[Len(results)].external_links

\* the fetched URLs whose fetch succeeded with an HTML content type, in the
\* order of their fetches
SuccessfulFetches ==
  SelectSeq(fetched, LAMBDA u : u \in DOMAIN site /\ ~FetchFailed(site[u]))

\* C19: results is the sequence of the successful HTML fetches in fetch
\* order: the urls of the records are the fetched URLs whose fetch succeeded
\* with an HTML content type, one record each and in that order, so that there
\* are as many records as visited URLs whose fetch succeeded.
C19_ResultsAreSuccessfulFetches ==
  /\ ResultUrls = SuccessfulFetches
  /\ Len(results) =
       Cardinality({u \in visited : u \in DOMAIN site /\ ~FetchFailed(site[u])})


====
